---- MODULE Spec2Model ----
(***************************************************************************)
(* Control core of the Miracast source daemon: the service controller      *)
(* (MiracastService) on top of the wpa_supplicant driven network manager   *)
(* (w11t::NetworkManager).  Everything runs on one glib main loop, so each *)
(* handler is one atomic action; a handler's synchronous calls into the    *)
(* delegate are part of the same action.                                   *)
(***************************************************************************)
EXTENDS Integers, Sequences, FiniteSets, TLC

\* ------------------------------------------------------------------ bounds
MaxDevices == 2      \* NetworkDevice objects ever allocated
MaxConnects == 2     \* Connect calls accepted by the service
MaxQueue == 4        \* pending commands held by the command queue
MaxTimers == 1       \* pending one-shot timers of one kind
MaxSteps == 8        \* handlers dispatched in one run
MaxConnectTimers == 11      \* pending 500 ms connect timers
MaxSupplicantSteps == 24    \* handlers dispatched in a run of the supplicant life cycle
MaxSessionSteps == 10       \* handlers dispatched in a run of consecutive sessions

\* ------------------------------------------------------- program constants
kSupplicantRespawnLimit == 10

Null == 0
NoAddr == ""
AddrSeq == <<"a1", "a2">>     \* the peer addresses, in the order of the peer map
Addrs == {AddrSeq[i] : i \in 1..Len(AddrSeq)}
States == {"Idle", "Association", "Configuration", "Connected", "Failure", "Disconnected"}
FailureReasons == {"FORMATION_FAILED", "PSK_FAILURE", "FREQ_CONFLICT"}
Reasons == FailureReasons \cup {"REQUESTED", ""}
LostKeys == {"p2p_dev_addr", "p2p_dev_address"}
Signals == {"SIGINT", "SIGTERM"}
Names == <<"tv", "beamer">>   \* the names peers announce
\* the device-type field of wfd_dev_info
DeviceTypes == {"source", "primary-sink", "secondary-sink", "dual"}

VARIABLES
    \* MiracastService
    enabled,            \* enabled_ (network_manager_ is held iff enabled_)
    current_device,     \* current_device_: device object or Null
    connect_callback,   \* connect_callback_: id of the stored completion or Null
    current_state,      \* current_state_
    source,             \* source_ is set
    lock,               \* display-state lock: acquires minus releases
    idle_timers,        \* pending OnIdleTimer one-shots
    \* heap
    devs,               \* NetworkDevice objects ever created: <<[addr, state]>>
    \* w11t::NetworkManager
    available_devices,  \* available_devices_: address -> device object or Null
    current_peer,       \* current_peer_
    is_group_owner,     \* is_group_owner_
    scanning,           \* scanning_
    dhcp_client,        \* DHCP client started
    dhcp_server,        \* DHCP server started
    dhcp_timeout,       \* dhcp_timeout_: "none" (0), "live" (armed source), "stale" (id of a gone source)
    dhcp_orphans,       \* armed DHCP timers whose id was overwritten in dhcp_timeout_
    failure_timers,     \* pending OnDeviceFailureTimeout one-shots: the peer whose Failure armed each
    queue,              \* command_queue_: the requests not yet answered, oldest first
    wire,               \* the requests written to the control socket that the supplicant has not answered
    supplicant_pid,     \* supplicant_pid_ (0 or 1)
    sup_alive,          \* the spawned wpa_supplicant process is running
    connected,          \* channel_/channel_watch_ set up on the control socket
    connect_timers,     \* pending 500 ms OnConnectSupplicant sources
    respawn_limit,      \* respawn_limit_
    respawn_source,     \* respawn_source_: "none", "live", "stale"
    stale_sources,      \* glib sources still pointing at a destroyed manager
    crashed,            \* the process died (null dereference, bad_function_call)
    \* observation of the last step
    out,                \* the callbacks and delegate notifications it made, in order
    \* history
    ncb,                \* number of accepted Connect calls (their callbacks are 1..ncb)
    cb_log,             \* callback id -> errors it has been invoked with
    find_ok_live,       \* a P2P_FIND was answered OK and no FIND-STOPPED/reset followed
    group_started,      \* a P2P-GROUP-STARTED was handled for the present current_peer_
    disc_pending,       \* pending zero-delay sources armed by OnClientDisconnected
    \* Main's Runtime
    signal_sources,     \* the signals whose g_unix_signal_add source is installed
    grace_timers,       \* pending shutdown-grace one-shots
    loop,               \* the main loop: "running", "quit" (g_main_loop_quit), "killed" (by a signal)
    steps               \* handlers dispatched so far

svc_vars == <<enabled, current_device, connect_callback, current_state, source, lock, idle_timers>>
mgr_vars == <<available_devices, current_peer, is_group_owner, scanning, dhcp_client,
              dhcp_server, dhcp_timeout, dhcp_orphans, failure_timers, queue, wire>>
sup_vars == <<supplicant_pid, sup_alive, connected, connect_timers, respawn_limit, respawn_source>>
rt_vars == <<signal_sources, grace_timers, loop>>
vars == <<svc_vars, devs, mgr_vars, sup_vars, stale_sources, crashed, out, ncb, cb_log,
          find_ok_live, group_started, disc_pending, rt_vars, steps>>

Note(k, d, s) == [k |-> k, d |-> d, s |-> s]
Cmd(name, arg) == [name |-> name, arg |-> arg]

\* The part of the state the synchronous delegate calls read and write.
World == [devs |-> devs, current_device |-> current_device,
          connect_callback |-> connect_callback, current_state |-> current_state,
          source |-> source, lock |-> lock, idle_timers |-> idle_timers,
          cb_log |-> cb_log, out |-> <<>>]

SetWorld(w) ==
    /\ devs' = w.devs
    /\ current_device' = w.current_device
    /\ connect_callback' = w.connect_callback
    /\ current_state' = w.current_state
    /\ source' = w.source
    /\ lock' = w.lock
    /\ idle_timers' = w.idle_timers
    /\ cb_log' = w.cb_log
    /\ out' = w.out

Emit(w, k, d, s) == [w EXCEPT !.out = Append(@, Note(k, d, s))]

\* ------------------------------------------------------- MiracastService

\* variant: the completion is invoked but stays stored
FinishConnectAttemptTwice(w, error) ==
    IF w.connect_callback # Null
    THEN [Emit(w, "cb", w.connect_callback, error)
            EXCEPT !.cb_log[w.connect_callback] = Append(@, error)]
    ELSE w

FinishConnectAttempt(w, error) ==
    IF w.connect_callback # Null
    THEN [Emit(w, "cb", w.connect_callback, error)
            EXCEPT !.cb_log[w.connect_callback] = Append(@, error),
                   !.connect_callback = Null]
    ELSE w

\* variant: no one-shot is added
StartIdleTimerSkipped(w) == w

StartIdleTimer(w) == [w EXCEPT !.idle_timers = @ + 1]

\* the body of "case kDisconnected", which "case kFailure" falls through to
DisconnectedWork(w) ==
    StartIdleTimer([w EXCEPT !.source = FALSE, !.current_device = Null, !.lock = @ - 1])

AdvanceState(w, new_state) ==
    LET w1 == CASE new_state = "Connected" ->
                     FinishConnectAttempt([w EXCEPT !.source = TRUE], "None")
                [] new_state = "Failure" ->
                     DisconnectedWork(FinishConnectAttempt(w, "Failed"))
                [] new_state = "Disconnected" -> DisconnectedWork(w)
                [] OTHER -> w
    IN Emit([w1 EXCEPT !.current_state = new_state], "svc.OnStateChanged", Null, new_state)

MiracastService_OnDeviceStateChanged(w, device) ==
    IF device # w.current_device
    THEN w
    ELSE Emit(AdvanceState(w, w.devs[device].state), "svc.OnDeviceChanged", device, "")

MiracastService_OnDeviceChanged(w, device) == Emit(w, "svc.OnDeviceChanged", device, "")

MiracastService_OnDeviceFound(w, device) == Emit(w, "svc.OnDeviceFound", device, "")

MiracastService_OnDeviceLost(w, device) == Emit(w, "svc.OnDeviceLost", device, "")

MiracastService_OnChanged(w) == Emit(w, "svc.OnChanged", Null, "")

\* ------------------------------------------------------------ NetworkManager

AdvanceDeviceState(w, device, state) ==
    LET w1 == [w EXCEPT !.devs[device].state = state]
        w2 == MiracastService_OnDeviceStateChanged(
                  Emit(w1, "mgr.OnDeviceStateChanged", device, state), device)
    IN MiracastService_OnDeviceChanged(Emit(w2, "mgr.OnDeviceChanged", device, ""), device)


\* the loop dispatches one more source; a dead process and a loop that was
\* quit dispatch nothing
Dispatched == ~crashed /\ loop = "running" /\ steps < MaxSteps /\ steps' = steps + 1

\* one more handler of the service or the manager is dispatched: it does not
\* touch the Runtime
Tick == Dispatched /\ UNCHANGED rt_vars

\* Message::Read of a Named<std::string>: the value stored under the wanted key,
\* the default-constructed (empty) string when the message carries no such key.
NamedRead(wanted, key, value) == IF key = wanted THEN value ELSE NoAddr

\* CommandQueue::EnqueueCommand: push
EnqueueCommand(q, m) == Append(q, m)

RECURSIVE EnqueueAll(_, _)
EnqueueAll(q, ms) ==
    IF ms = <<>> THEN q ELSE EnqueueAll(EnqueueCommand(q, Head(ms)), Tail(ms))

\* send(2) on the control socket: the request reaches the supplicant only when
\* the socket is connected to a running one (up)
Send(w, m, up) == IF up THEN Append(w, m) ELSE w

\* RequestAsync for each request of ms in turn: the queue pushes it and writes it
\* to the transport when the push made the queue non-empty
RequestAsync(ms, up) ==
    /\ queue' = EnqueueAll(queue, ms)
    /\ wire' = IF queue = <<>> /\ ms # <<>> THEN Send(wire, Head(ms), up) ELSE wire

\* dhcp_timeout_ = g_timeout_add(...): the previous source, if still armed, stays
\* armed but is no longer referenced.
ArmDhcpTimeout ==
    /\ dhcp_timeout' = "live"
    /\ dhcp_orphans' = IF dhcp_timeout = "live" THEN dhcp_orphans + 1 ELSE dhcp_orphans

\* if (dhcp_timeout_ > 0) { g_source_remove(dhcp_timeout_); dhcp_timeout_ = 0; }
CancelDhcpTimeout == dhcp_timeout' = "none" /\ UNCHANGED dhcp_orphans

\* events arrive on the control socket while the channel watch is installed and
\* the supplicant process is running
Receiving == enabled /\ connected /\ sup_alive

\* WfdDeviceInfo: a peer is supported when its device type is source,
\* primary sink or dual
IsSupported(device_type) == device_type \in {"source", "primary-sink", "dual"}
IsSupportedSink(device_type) == device_type \in {"primary-sink", "secondary-sink", "dual"}
IsSupportedSource(device_type) == device_type \in {"source", "dual"}

\* the roles vector: kSink is pushed before kSource
Roles(device_type) ==
    (IF IsSupportedSink(device_type) THEN <<"Sink">> ELSE <<>>)
        \o (IF IsSupportedSource(device_type) THEN <<"Source">> ELSE <<>>)

\* variant: the known peer is replaced by a freshly constructed one
UpdateDeviceAsNew(w, device, address, name, roles) ==
    [w EXCEPT !.devs[device] =
        [addr |-> address, name |-> name, roles |-> roles, state |-> "Idle"]]

\* the update of a peer already in available_devices_: Address(), Name() and
\* SupportedRoles() are assigned on the existing object
UpdateDevice(w, device, address, name, roles) ==
    [w EXCEPT !.devs[device].addr = address,
              !.devs[device].name = name,
              !.devs[device].roles = roles]

OnP2pDeviceFound(addr, name, device_type) ==
    /\ Receiving
    /\ Tick
    /\ IF ~IsSupported(device_type)
       THEN SetWorld(World) /\ UNCHANGED available_devices
       ELSE IF \E a \in Addrs : /\ available_devices[a] # Null
                                 /\ devs[available_devices[a]].addr = addr
       THEN LET a == CHOOSE a \in Addrs : /\ available_devices[a] # Null
                                          /\ devs[available_devices[a]].addr = addr
            IN /\ SetWorld(UpdateDevice(World, available_devices[a], addr, name,
                                        Roles(device_type)))
               /\ UNCHANGED available_devices
       ELSE /\ Len(devs) < MaxDevices
            /\ LET device == Len(devs) + 1
                   w == [World EXCEPT !.devs = Append(@, [addr |-> addr, name |-> name,
                                                          roles |-> Roles(device_type),
                                                          state |-> "Idle"])]
               IN /\ available_devices' = [available_devices EXCEPT ![addr] = device]
                  /\ SetWorld(MiracastService_OnDeviceFound(
                                  Emit(w, "mgr.OnDeviceFound", device, ""), device))
    /\ UNCHANGED <<enabled, current_peer, is_group_owner, scanning, dhcp_client, dhcp_server,
                   dhcp_timeout, dhcp_orphans, failure_timers, queue, wire, sup_vars, stale_sources,
                   crashed, ncb, find_ok_live, group_started, disc_pending>>

LostKey == "p2p_dev_address"

OnP2pDeviceLost(key, addr) ==
    /\ Receiving
    /\ Tick
    /\ LET address == NamedRead(LostKey, key, addr)
       IN IF address \notin Addrs \/ available_devices[address] = Null
          THEN SetWorld(World) /\ UNCHANGED available_devices
          ELSE LET device == available_devices[address]
               IN /\ SetWorld(MiracastService_OnDeviceLost(
                                  Emit(World, "mgr.OnDeviceLost", device, ""), device))
                  /\ available_devices' = [available_devices EXCEPT ![address] = Null]
    /\ UNCHANGED <<enabled, current_peer, is_group_owner, scanning, dhcp_client, dhcp_server,
                   dhcp_timeout, dhcp_orphans, failure_timers, queue, wire, sup_vars, stale_sources,
                   crashed, ncb, find_ok_live, group_started, disc_pending>>

\* variant: Connected is reported before the server is started
GroupOwnerReportsFirst(w, peer) ==
    Emit(AdvanceDeviceState(w, peer, "Connected"), "dhcp_server.Start", Null, "")

\* the calls of the GO branch: dhcp_server_.Start(), then
\* AdvanceDeviceState(current_peer_, kConnected)
GroupOwnerStarts(w, peer) ==
    AdvanceDeviceState(Emit(w, "dhcp_server.Start", Null, ""), peer, "Connected")

OnP2pGroupStarted(role, started) ==
    /\ Receiving
    /\ Tick
    /\ group_started' = (group_started \/ current_peer # Null)
    /\ IF current_peer = Null
       THEN /\ SetWorld(World)
            /\ UNCHANGED <<is_group_owner, dhcp_client, dhcp_server, dhcp_timeout, dhcp_orphans>>
       ELSE LET w1 == AdvanceDeviceState(World, current_peer, "Configuration")
            IN IF role = "GO"
               THEN /\ is_group_owner' = TRUE
                    /\ dhcp_server' = (dhcp_server \/ started)
                    /\ SetWorld(GroupOwnerStarts(w1, current_peer))
                    /\ UNCHANGED <<dhcp_client, dhcp_timeout, dhcp_orphans>>
               ELSE /\ is_group_owner' = FALSE
                    /\ dhcp_client' = (dhcp_client \/ started)
                    /\ dhcp_timeout = "live" => dhcp_orphans < MaxTimers
                    /\ ArmDhcpTimeout
                    /\ SetWorld(Emit(w1, "dhcp_client.Start", Null, ""))
                    /\ UNCHANGED dhcp_server
    /\ UNCHANGED <<enabled, available_devices, current_peer, scanning, failure_timers, queue, wire,
                   sup_vars, stale_sources, crashed, ncb, find_ok_live, disc_pending>>

ReasonState(reason) == IF reason \in FailureReasons THEN "Failure" ELSE "Disconnected"

OnP2pGroupRemoved(reason) ==
    /\ Receiving
    /\ Tick
    /\ IF current_peer = Null
       THEN SetWorld(World) /\ UNCHANGED <<current_peer, dhcp_client, dhcp_server>>
       ELSE /\ IF is_group_owner
               THEN dhcp_server' = FALSE /\ UNCHANGED dhcp_client
               ELSE dhcp_client' = FALSE /\ UNCHANGED dhcp_server
            /\ SetWorld(AdvanceDeviceState(World, current_peer, ReasonState(reason)))
            /\ current_peer' = Null
    /\ group_started' = FALSE
    /\ UNCHANGED <<enabled, available_devices, is_group_owner, scanning, dhcp_timeout,
                   dhcp_orphans, failure_timers, queue, wire, sup_vars, stale_sources, crashed, ncb,
                   find_ok_live, disc_pending>>

OnP2pGoNegFailure ==
    /\ Receiving
    /\ Tick
    /\ IF current_peer = Null
       THEN SetWorld(World) /\ UNCHANGED current_peer
       ELSE /\ SetWorld(AdvanceDeviceState(World, current_peer, "Failure"))
            /\ current_peer' = Null
    /\ group_started' = FALSE
    /\ UNCHANGED <<enabled, available_devices, is_group_owner, scanning, dhcp_client,
                   dhcp_server, dhcp_timeout, dhcp_orphans, failure_timers, queue, wire, sup_vars,
                   stale_sources, crashed, ncb, find_ok_live, disc_pending>>

OnP2pFindStopped ==
    /\ Receiving
    /\ Tick
    /\ find_ok_live' = FALSE
    /\ IF ~scanning
       THEN SetWorld(World) /\ UNCHANGED scanning
       ELSE /\ scanning' = FALSE
            /\ SetWorld(MiracastService_OnChanged(Emit(World, "mgr.OnChanged", Null, "")))
    /\ UNCHANGED <<enabled, available_devices, current_peer, is_group_owner, dhcp_client,
                   dhcp_server, dhcp_timeout, dhcp_orphans, failure_timers, queue, wire, sup_vars,
                   stale_sources, crashed, ncb, group_started, disc_pending>>

\* AP-STA-CONNECTED, AP-STA-DISCONNECTED, the ignored CTRL-EVENT-* and unknown events
OnOtherEvent(name) ==
    /\ Receiving
    /\ Tick
    /\ SetWorld(World)
    /\ UNCHANGED <<enabled, mgr_vars, sup_vars, stale_sources, crashed, ncb, find_ok_live,
                   group_started, disc_pending>>


\* The completion of P2P_FIND (the lambda in Scan)
ScanReply(ok) ==
    /\ find_ok_live' = (ok \/ find_ok_live)
    /\ IF ok = scanning
       THEN SetWorld(World) /\ UNCHANGED scanning
       ELSE /\ scanning' = ok
            /\ SetWorld(MiracastService_OnChanged(Emit(World, "mgr.OnChanged", Null, "")))
    /\ UNCHANGED crashed

\* The completion of P2P_CONNECT (the lambda in Connect).  It dereferences
\* current_peer_ and then reads `device`, a reference captured by reference that
\* is gone by now: either step may kill the process.
ConnectReply(ok) ==
    /\ UNCHANGED <<find_ok_live, scanning>>
    /\ IF ok
       THEN SetWorld(World) /\ UNCHANGED crashed
       ELSE IF current_peer = Null
       THEN SetWorld(World) /\ crashed' \in BOOLEAN
       ELSE /\ SetWorld(AdvanceDeviceState(World, current_peer, "Failure"))
            /\ crashed' \in BOOLEAN

\* CommandQueue::HandleMessage for an OK/FAIL reply: pop the head and run its
\* completion; a reply with nothing in flight is dropped.
OnReply(ok) ==
    /\ Receiving
    /\ wire # <<>> \/ queue = <<>>
    /\ Tick
    /\ IF queue = <<>>
       THEN SetWorld(World) /\ UNCHANGED <<queue, wire, find_ok_live, scanning, crashed>>
       ELSE /\ queue' = Tail(queue)
            /\ wire' = IF Tail(queue) # <<>>
                       THEN Send(Tail(wire), Head(Tail(queue)), TRUE)
                       ELSE Tail(wire)
            /\ CASE Head(queue).name = "P2P_FIND" -> ScanReply(ok)
                 [] Head(queue).name = "P2P_CONNECT" -> ConnectReply(ok)
                 [] OTHER -> SetWorld(World) /\ UNCHANGED <<find_ok_live, scanning, crashed>>
    /\ UNCHANGED <<enabled, available_devices, current_peer, is_group_owner, dhcp_client,
                   dhcp_server, dhcp_timeout, dhcp_orphans, failure_timers, sup_vars,
                   stale_sources, ncb, group_started, disc_pending>>

OnAddressAssigned ==
    /\ enabled /\ dhcp_client
    /\ Tick
    /\ IF current_peer = Null
       THEN SetWorld(World) /\ UNCHANGED <<dhcp_timeout, dhcp_orphans>>
       ELSE /\ IF dhcp_timeout # "none"
               THEN CancelDhcpTimeout
               ELSE UNCHANGED <<dhcp_timeout, dhcp_orphans>>
            /\ SetWorld(AdvanceDeviceState(World, current_peer, "Connected"))
    /\ UNCHANGED <<enabled, available_devices, current_peer, is_group_owner, scanning,
                   dhcp_client, dhcp_server, failure_timers, queue, wire, sup_vars, stale_sources,
                   crashed, ncb, find_ok_live, group_started, disc_pending>>

\* which: "live" is the source dhcp_timeout_ names, "orphan" one it no longer names
OnGroupClientDhcpTimeout(which) ==
    /\ enabled
    /\ Tick
    /\ IF which = "live"
       THEN dhcp_timeout = "live" /\ dhcp_timeout' = "stale" /\ UNCHANGED dhcp_orphans
       ELSE dhcp_orphans > 0 /\ dhcp_orphans' = dhcp_orphans - 1 /\ UNCHANGED dhcp_timeout
    /\ IF current_peer = Null
       THEN SetWorld(World) /\ UNCHANGED failure_timers
       ELSE /\ Len(failure_timers) < MaxTimers
            /\ failure_timers' = Append(failure_timers, current_peer)
            /\ SetWorld(AdvanceDeviceState(World, current_peer, "Failure"))
    /\ UNCHANGED <<enabled, available_devices, current_peer, is_group_owner, scanning,
                   dhcp_client, dhcp_server, queue, wire, sup_vars, stale_sources, crashed, ncb,
                   find_ok_live, group_started, disc_pending>>

\* inst->current_peer_->State() = mcs::kIdle, with no check of current_peer_
OnDeviceFailureTimeout ==
    /\ enabled /\ failure_timers # <<>>
    /\ Tick
    /\ failure_timers' = Tail(failure_timers)
    /\ IF current_peer = Null
       THEN SetWorld(World) /\ crashed' \in BOOLEAN
       ELSE /\ SetWorld([World EXCEPT !.devs[current_peer].state = "Idle"])
            /\ UNCHANGED crashed
    /\ UNCHANGED <<enabled, available_devices, current_peer, is_group_owner, scanning,
                   dhcp_client, dhcp_server, dhcp_timeout, dhcp_orphans, queue, wire, sup_vars,
                   stale_sources, ncb, find_ok_live, group_started, disc_pending>>

RECURSIVE LoseAll(_, _)
\* for (auto peer : available_devices_) delegate_->OnDeviceLost(peer.second)
LoseAll(w, i) ==
    IF i > Len(AddrSeq) THEN w
    ELSE LET device == available_devices[AddrSeq[i]]
         IN LoseAll(IF device = Null THEN w
                    ELSE MiracastService_OnDeviceLost(Emit(w, "mgr.OnDeviceLost", device, ""),
                                                      device),
                    i + 1)

NoDevices == [a \in Addrs |-> Null]

\* what Reset tells the delegate: Disconnected for the current peer, if there is
\* one, then OnDeviceLost for every peer of the map
ResetNotifications(w) ==
    LoseAll(IF current_peer # Null
            THEN AdvanceDeviceState(w, current_peer, "Disconnected")
            ELSE w, 1)

Reset ==
    /\ IF current_peer # Null
       THEN /\ IF dhcp_timeout # "none"
               THEN CancelDhcpTimeout
               ELSE UNCHANGED <<dhcp_timeout, dhcp_orphans>>
            /\ dhcp_client' = FALSE
            /\ dhcp_server' = FALSE
       ELSE UNCHANGED <<dhcp_timeout, dhcp_orphans, dhcp_client, dhcp_server>>
    /\ SetWorld(ResetNotifications(World))
    /\ current_peer' = Null
    /\ available_devices' = NoDevices
    /\ is_group_owner' = FALSE
    /\ find_ok_live' = FALSE
    /\ group_started' = FALSE

\* variant: a respawn is scheduled whatever is left of the budget
HandleSupplicantFailedUnbounded ==
    /\ respawn_source' = "live"
    /\ respawn_limit' = IF respawn_limit > 0 THEN respawn_limit - 1 ELSE 0
    /\ connected' = FALSE
    /\ supplicant_pid' = 0
    /\ Reset

HandleSupplicantFailed ==
    /\ IF respawn_limit > 0
       THEN respawn_source' = "live" /\ respawn_limit' = respawn_limit - 1
       ELSE UNCHANGED <<respawn_source, respawn_limit>>
    /\ connected' = FALSE
    /\ supplicant_pid' = 0
    /\ Reset

\* the child watch: the supplicant process exited
OnSupplicantWatch(status_ok) ==
    /\ enabled /\ sup_alive
    /\ Tick
    /\ sup_alive' = FALSE
    /\ wire' = <<>>
    /\ IF status_ok
       THEN /\ SetWorld(World)
            /\ UNCHANGED <<available_devices, current_peer, is_group_owner, dhcp_client,
                           dhcp_server, dhcp_timeout, dhcp_orphans, supplicant_pid, connected,
                           respawn_limit, respawn_source, find_ok_live, group_started>>
       ELSE HandleSupplicantFailed
    /\ UNCHANGED <<enabled, scanning, failure_timers, queue, connect_timers, stale_sources,
                   crashed, ncb, disc_pending>>

\* StartSupplicant succeeded: process spawned, child watch and 500 ms connect timer added
StartSupplicant ==
    /\ connect_timers < MaxConnectTimers
    /\ supplicant_pid' = 1
    /\ sup_alive' = TRUE
    /\ connect_timers' = connect_timers + 1

OnSupplicantRespawn(start_ok) ==
    /\ enabled /\ respawn_source = "live"
    /\ Tick
    /\ SetWorld(World)
    /\ IF start_ok
       THEN StartSupplicant /\ respawn_source' = "stale" /\ UNCHANGED respawn_limit
       ELSE /\ UNCHANGED <<supplicant_pid, sup_alive, connect_timers>>
            /\ IF respawn_limit > 0
               THEN respawn_limit' = respawn_limit - 1 /\ UNCHANGED respawn_source
               ELSE respawn_source' = "stale" /\ UNCHANGED respawn_limit
    /\ UNCHANGED <<enabled, mgr_vars, connected, stale_sources, crashed, ncb, find_ok_live,
                   group_started, disc_pending>>

\* variant: wifi_display is set before the events are attached
AttachCommandsSetFirst == <<Cmd("SET", "wifi_display 1"), Cmd("ATTACH", ""),
                            Cmd("WFD_SUBELEM_SET", "0 000600101C440032")>>

AttachCommands == <<Cmd("ATTACH", ""), Cmd("SET", "wifi_display 1"),
                    Cmd("WFD_SUBELEM_SET", "0 000600101C440032")>>

\* the 500 ms timer: ConnectSupplicant; it stays armed until the connect succeeds
OnConnectSupplicant(ok) ==
    /\ enabled /\ connect_timers > 0
    /\ Tick
    /\ SetWorld(World)
    /\ IF ok /\ sup_alive
       THEN /\ Len(queue) + Len(AttachCommands) <= MaxQueue
            /\ connected' = TRUE
            /\ RequestAsync(AttachCommands, TRUE)
            /\ respawn_limit' = kSupplicantRespawnLimit
            /\ connect_timers' = connect_timers - 1
       ELSE UNCHANGED <<connected, queue, wire, respawn_limit, connect_timers>>
    /\ UNCHANGED <<enabled, available_devices, current_peer, is_group_owner, scanning,
                   dhcp_client, dhcp_server, dhcp_timeout, dhcp_orphans, failure_timers,
                   supplicant_pid, sup_alive, respawn_source, stale_sources, crashed, ncb,
                   find_ok_live, group_started, disc_pending>>

\* OnIncomingMessages with G_IO_HUP: StopSupplicant and nothing else
OnIncomingHup ==
    /\ enabled /\ connected
    /\ Tick
    /\ SetWorld(World)
    /\ supplicant_pid' = 0
    /\ UNCHANGED <<enabled, mgr_vars, sup_alive, connected, connect_timers, respawn_limit,
                   respawn_source, stale_sources, crashed, ncb, find_ok_live, group_started, disc_pending>>


\* ------------------------------------------------------ MiracastService API

\* variant: a busy manager accepts a further Connect
NetworkManager_ConnectAcceptsBusy(device) ==
    available_devices[devs[device].addr] # Null

\* NetworkManager::Connect returns true
NetworkManager_ConnectAccepts(device) ==
    /\ current_peer = Null
    /\ available_devices[devs[device].addr] # Null

\* variant: the scan is stopped after the connect was requested
ConnectCommandsStopLast(device) ==
    <<Cmd("P2P_CONNECT", devs[device].addr \o " pbc")>>
        \o (IF scanning THEN <<Cmd("P2P_STOP_FIND", "")>> ELSE <<>>)

\* the requests an accepted NetworkManager::Connect enqueues
ConnectCommands(device) ==
    (IF scanning THEN <<Cmd("P2P_STOP_FIND", "")>> ELSE <<>>)
        \o <<Cmd("P2P_CONNECT", devs[device].addr \o " pbc")>>

\* variant: the null check comes before the current-device check
ConnectGateNullFirst(device) ==
    IF ~enabled THEN "NotReady"
    ELSE IF device = Null THEN "ParamInvalid"
    ELSE IF current_device # Null THEN "Already"
    ELSE "pass"

\* the gates of MiracastService::Connect, in order: the error reported, or "pass"
ConnectGate(device) ==
    IF ~enabled THEN "NotReady"
    ELSE IF current_device # Null THEN "Already"
    ELSE IF device = Null THEN "ParamInvalid"
    ELSE "pass"

\* the callback of the call is ncb + 1; it keeps that id once the call is accepted
\* variant: the accepted Connect puts the peer into Association
ConnectAcceptedAssociates(w, device, callback) ==
    [w EXCEPT !.lock = @ + 1,
              !.current_device = device,
              !.connect_callback = callback,
              !.devs[device].state = "Association"]

\* what follows the manager's acceptance in MiracastService::Connect: the
\* display lock is taken, device and completion are stored
ConnectAccepted(w, device, callback) ==
    [w EXCEPT !.lock = @ + 1,
              !.current_device = device,
              !.connect_callback = callback]

MiracastService_Connect(device) ==
    /\ Tick
    /\ LET callback == ncb + 1
           gate == ConnectGate(device)
       IN IF gate # "pass"
          THEN /\ SetWorld(Emit(World, "cb", callback, gate))
               /\ UNCHANGED <<current_peer, queue, wire, ncb, group_started>>
          ELSE IF ~NetworkManager_ConnectAccepts(device)
          THEN /\ SetWorld(Emit(World, "cb", callback, "Failed"))
               /\ UNCHANGED <<current_peer, queue, wire, ncb, group_started>>
          ELSE /\ ncb < MaxConnects
               /\ Len(queue) + Len(ConnectCommands(device)) <= MaxQueue
               /\ current_peer' = available_devices[devs[device].addr]
               /\ RequestAsync(ConnectCommands(device), connected /\ sup_alive)
               /\ SetWorld(ConnectAccepted(World, device, callback))
               /\ ncb' = callback
               /\ group_started' = FALSE
    /\ UNCHANGED <<enabled, available_devices, is_group_owner, scanning, dhcp_client,
                   dhcp_server, dhcp_timeout, dhcp_orphans, failure_timers, sup_vars,
                   stale_sources, crashed, find_ok_live, disc_pending>>

\* variant: any device is accepted while there is a current peer
NetworkManager_DisconnectAcceptsAny(device) == current_peer # Null

\* NetworkManager::Disconnect returns true
NetworkManager_DisconnectAccepts(device) == current_peer # Null /\ current_peer = device

\* variant: the group is removed whatever the state of the peer
DisconnectRequestAlwaysRemoves(state) == Cmd("P2P_GROUP_REMOVE", "p2p0")

\* the request NetworkManager::Disconnect makes for a current peer in the given state
DisconnectRequest(state) ==
    IF state = "Association"
    THEN Cmd("P2P_CANCEL", "")
    ELSE Cmd("P2P_GROUP_REMOVE", "p2p0")

DisconnectCommand == DisconnectRequest(devs[current_peer].state)

\* MiracastService::Disconnect; has_cb is false for a null completion, which the
\* disabled-service gate invokes all the same (std::bad_function_call)
Disconnect(device, has_cb) ==
    IF ~enabled
    THEN IF has_cb
         THEN SetWorld(Emit(World, "dcb", Null, "NotReady")) /\ UNCHANGED <<queue, wire, crashed>>
         ELSE SetWorld(World) /\ crashed' = TRUE /\ UNCHANGED <<queue, wire>>
    ELSE IF current_device = Null \/ device = Null
    THEN /\ SetWorld(IF has_cb THEN Emit(World, "dcb", Null, "ParamInvalid") ELSE World)
         /\ UNCHANGED <<queue, wire, crashed>>
    ELSE IF ~NetworkManager_DisconnectAccepts(device)
    THEN /\ SetWorld(IF has_cb THEN Emit(World, "dcb", Null, "Failed") ELSE World)
         /\ UNCHANGED <<queue, wire, crashed>>
    ELSE /\ Len(queue) < MaxQueue
         /\ RequestAsync(<<DisconnectCommand>>, connected /\ sup_alive)
         /\ SetWorld(IF has_cb THEN Emit(World, "dcb", Null, "None") ELSE World)
         /\ UNCHANGED crashed

MiracastService_Disconnect(device) ==
    /\ Tick
    /\ Disconnect(device, TRUE)
    /\ UNCHANGED <<enabled, available_devices, current_peer, is_group_owner, scanning,
                   dhcp_client, dhcp_server, dhcp_timeout, dhcp_orphans, failure_timers,
                   sup_vars, stale_sources, ncb, find_ok_live, group_started, disc_pending>>

MiracastService_DisconnectAll ==
    /\ Tick
    /\ Disconnect(current_device, TRUE)
    /\ UNCHANGED <<enabled, available_devices, current_peer, is_group_owner, scanning,
                   dhcp_client, dhcp_server, dhcp_timeout, dhcp_orphans, failure_timers,
                   sup_vars, stale_sources, ncb, find_ok_live, group_started, disc_pending>>

\* the streaming source lost its client: defer a Disconnect to the main loop
MiracastService_OnClientDisconnected ==
    /\ source
    /\ disc_pending < MaxTimers
    /\ Tick
    /\ disc_pending' = disc_pending + 1
    /\ SetWorld(World)
    /\ UNCHANGED <<enabled, mgr_vars, sup_vars, stale_sources, crashed, ncb, find_ok_live, group_started>>

\* the deferred lambda of OnClientDisconnected: Disconnect(current_device_, nullptr)
OnClientDisconnectedTimeout ==
    /\ disc_pending > 0
    /\ Tick
    /\ disc_pending' = disc_pending - 1
    /\ Disconnect(current_device, FALSE)
    /\ UNCHANGED <<enabled, available_devices, current_peer, is_group_owner, scanning,
                   dhcp_client, dhcp_server, dhcp_timeout, dhcp_orphans, failure_timers,
                   sup_vars, stale_sources, ncb, find_ok_live, group_started>>

\* variant: Scan asks for P2P_FIND whether or not a scan is running
NetworkManager_ScanAlways(timeout) ==
    /\ Len(queue) < MaxQueue
    /\ RequestAsync(<<Cmd("P2P_FIND", IF timeout > 0 THEN "1" ELSE "")>>, connected /\ sup_alive)

\* NetworkManager::Scan
NetworkManager_Scan(timeout) ==
    IF scanning
    THEN UNCHANGED <<queue, wire>>
    ELSE /\ Len(queue) < MaxQueue
         /\ RequestAsync(<<Cmd("P2P_FIND", IF timeout > 0 THEN "1" ELSE "")>>, connected /\ sup_alive)

MiracastService_Scan(timeout) ==
    /\ Tick
    /\ IF ~enabled \/ current_device # Null
       THEN SetWorld(Emit(World, "ret", Null, "NotReady")) /\ UNCHANGED <<queue, wire>>
       ELSE NetworkManager_Scan(timeout) /\ SetWorld(Emit(World, "ret", Null, "None"))
    /\ UNCHANGED <<enabled, available_devices, current_peer, is_group_owner, scanning,
                   dhcp_client, dhcp_server, dhcp_timeout, dhcp_orphans, failure_timers,
                   sup_vars, stale_sources, crashed, ncb, find_ok_live, group_started, disc_pending>>

OnIdleTimer ==
    /\ idle_timers > 0
    /\ Tick
    /\ SetWorld(AdvanceState([World EXCEPT !.idle_timers = @ - 1], "Idle"))
    /\ UNCHANGED <<enabled, mgr_vars, sup_vars, stale_sources, crashed, ncb, find_ok_live,
                   group_started, disc_pending>>

\* a manager as its constructor leaves it
FreshManager ==
    /\ available_devices' = NoDevices
    /\ current_peer' = Null
    /\ is_group_owner' = FALSE
    /\ scanning' = FALSE
    /\ dhcp_client' = FALSE
    /\ dhcp_server' = FALSE
    /\ dhcp_timeout' = "none"
    /\ dhcp_orphans' = 0
    /\ failure_timers' = <<>>
    /\ queue' = <<>>
    /\ wire' = <<>>
    /\ connected' = FALSE
    /\ respawn_limit' = kSupplicantRespawnLimit
    /\ respawn_source' = "none"
    /\ find_ok_live' = FALSE
    /\ group_started' = FALSE

\* sources the destructor leaves registered with a pointer to the destroyed manager
LeavesSources ==
    \/ dhcp_timeout = "live" \/ dhcp_orphans > 0 \/ failure_timers # <<>>
    \/ connect_timers > 0 \/ sup_alive

\* NetworkManager::Release, the teardown of the manager: it resets the manager
\* before the service drops it
NetworkManager_Release(w) == ResetNotifications(w)

\* variant: the wanted value is not compared with the present one
SetEnabledSkipsCompare(flag, setup_ok) == flag => setup_ok

\* neither early return of SetEnabled is taken: the value differs and, for an
\* enable, SetupNetworkManager succeeded
SetEnabledProceeds(flag, setup_ok) == enabled # flag /\ (flag => setup_ok)

\* setup_ok: the factory made a manager and its Setup (StartSupplicant) succeeded
SetEnabled(flag, setup_ok) ==
    /\ IF ~SetEnabledProceeds(flag, setup_ok)
       THEN /\ SetWorld(World)
            /\ UNCHANGED <<enabled, mgr_vars, sup_vars, stale_sources, find_ok_live, group_started>>
       ELSE IF flag
       THEN /\ FreshManager
            /\ supplicant_pid' = 1
            /\ sup_alive' = TRUE
            /\ connect_timers' = 1
            /\ enabled' = TRUE
            /\ SetWorld(Emit(World, "svc.OnChanged", Null, ""))
            /\ UNCHANGED stale_sources
       ELSE /\ FreshManager
            /\ supplicant_pid' = 0
            /\ sup_alive' = FALSE
            /\ connect_timers' = 0
            /\ stale_sources' = (stale_sources \/ LeavesSources)
            /\ enabled' = FALSE
            /\ SetWorld(Emit([NetworkManager_Release(World) EXCEPT !.current_device = Null],
                              "svc.OnChanged", Null, ""))
    /\ UNCHANGED <<crashed, ncb, disc_pending>>

MiracastService_SetEnabled(flag, setup_ok) == Tick /\ SetEnabled(flag, setup_ok)

\* Runtime::OnSignalRaised, dispatched by the source of sig: Shutdown
\* (SetEnabled(false)), a grace one-shot is added, and the source is removed
\* by the FALSE it returns
OnSignalRaised(sig) ==
    /\ sig \in signal_sources
    /\ Dispatched
    /\ SetEnabled(FALSE, TRUE)
    /\ grace_timers' = grace_timers + 1
    /\ signal_sources' = signal_sources \ {sig}
    /\ UNCHANGED loop

\* sig is raised after its only source was removed: GLib has restored the
\* default disposition, which terminates the process
OnSignalDefault(sig) ==
    /\ sig \notin signal_sources
    /\ Dispatched
    /\ loop' = "killed"
    /\ SetWorld(World)
    /\ UNCHANGED <<enabled, mgr_vars, sup_vars, stale_sources, crashed, ncb, find_ok_live,
                   group_started, disc_pending, signal_sources, grace_timers>>

\* the grace one-shot: g_main_loop_quit
OnShutdownGrace ==
    /\ grace_timers > 0
    /\ Dispatched
    /\ loop' = "quit"
    /\ grace_timers' = grace_timers - 1
    /\ SetWorld(World)
    /\ UNCHANGED <<enabled, mgr_vars, sup_vars, stale_sources, crashed, ncb, find_ok_live,
                   group_started, disc_pending, signal_sources>>

\* a source left behind by a destroyed manager is dispatched: use after free
OnDanglingSource ==
    /\ stale_sources
    /\ Tick
    /\ SetWorld(World)
    /\ stale_sources' \in BOOLEAN
    /\ crashed' \in BOOLEAN
    /\ UNCHANGED <<enabled, mgr_vars, sup_vars, ncb, find_ok_live, group_started, disc_pending>>

\* -------------------------------------------------------------- specification

InitState ==
    /\ enabled = FALSE
    /\ current_device = Null
    /\ connect_callback = Null
    /\ current_state = "Idle"
    /\ source = FALSE
    /\ lock = 0
    /\ idle_timers = 0
    /\ devs = <<>>
    /\ available_devices = NoDevices
    /\ current_peer = Null
    /\ is_group_owner = FALSE
    /\ scanning = FALSE
    /\ dhcp_client = FALSE
    /\ dhcp_server = FALSE
    /\ dhcp_timeout = "none"
    /\ dhcp_orphans = 0
    /\ failure_timers = <<>>
    /\ queue = <<>>
    /\ wire = <<>>
    /\ supplicant_pid = 0
    /\ sup_alive = FALSE
    /\ connected = FALSE
    /\ connect_timers = 0
    /\ respawn_limit = kSupplicantRespawnLimit
    /\ respawn_source = "none"
    /\ stale_sources = FALSE
    /\ crashed = FALSE
    /\ out = <<>>
    /\ ncb = 0
    /\ cb_log = [c \in 1..MaxConnects |-> <<>>]
    /\ find_ok_live = FALSE
    /\ group_started = FALSE
    /\ disc_pending = 0
    /\ signal_sources = Signals
    /\ grace_timers = 0
    /\ loop = "running"

Init == InitState /\ steps = 0

ServiceCall ==
    \/ \E flag \in BOOLEAN, setup_ok \in BOOLEAN : MiracastService_SetEnabled(flag, setup_ok)
    \/ \E device \in 0..Len(devs) : MiracastService_Connect(device)
    \/ \E device \in 0..Len(devs) : MiracastService_Disconnect(device)
    \/ MiracastService_DisconnectAll
    \/ \E timeout \in {0, 1} : MiracastService_Scan(timeout)
    \/ MiracastService_OnClientDisconnected

SupplicantMessage ==
    \/ \E addr \in Addrs, device_type \in {"primary-sink", "secondary-sink"} :
           OnP2pDeviceFound(addr, Names[1], device_type)
    \/ \E key \in LostKeys, addr \in Addrs : OnP2pDeviceLost(key, addr)
    \/ \E role \in {"GO", "client"}, started \in BOOLEAN : OnP2pGroupStarted(role, started)
    \/ \E reason \in Reasons : OnP2pGroupRemoved(reason)
    \/ OnP2pGoNegFailure
    \/ OnP2pFindStopped
    \/ \E name \in {"AP-STA-CONNECTED", "CTRL-EVENT-CONNECTED"} : OnOtherEvent(name)
    \/ \E ok \in BOOLEAN : OnReply(ok)

LoopSource ==
    \/ OnAddressAssigned
    \/ \E which \in {"live", "orphan"} : OnGroupClientDhcpTimeout(which)
    \/ OnDeviceFailureTimeout
    \/ OnIdleTimer
    \/ OnClientDisconnectedTimeout
    \/ \E status_ok \in BOOLEAN : OnSupplicantWatch(status_ok)
    \/ \E start_ok \in BOOLEAN : OnSupplicantRespawn(start_ok)
    \/ \E ok \in BOOLEAN : OnConnectSupplicant(ok)
    \/ OnIncomingHup
    \/ OnDanglingSource

Next == ServiceCall \/ SupplicantMessage \/ LoopSource

Spec == Init /\ [][Next]_vars

\* The supplicant life cycle alone, followed for MaxSupplicantSteps handlers.
InitSupplicant == InitState /\ steps = MaxSteps - MaxSupplicantSteps

NextSupplicant ==
    \/ \E flag \in BOOLEAN, setup_ok \in BOOLEAN : MiracastService_SetEnabled(flag, setup_ok)
    \/ \E status_ok \in BOOLEAN : OnSupplicantWatch(status_ok)
    \/ \E start_ok \in BOOLEAN : OnSupplicantRespawn(start_ok)
    \/ \E ok \in BOOLEAN : OnConnectSupplicant(ok)
    \/ \E ok \in BOOLEAN : OnReply(ok)
    \/ OnIncomingHup

SpecSupplicant == InitSupplicant /\ [][NextSupplicant]_vars

\* Consecutive sessions with one peer alone (enable, attach, discovery, Connect,
\* group events, DHCP, the service's idle one-shot), followed for MaxSessionSteps
\* handlers.
InitSession == InitState /\ steps = MaxSteps - MaxSessionSteps

NextSession ==
    \/ \E flag \in BOOLEAN : MiracastService_SetEnabled(flag, TRUE)
    \/ OnConnectSupplicant(TRUE)
    \/ \E n \in 1..Len(Names), device_type \in DeviceTypes :
           OnP2pDeviceFound(AddrSeq[1], Names[n], device_type)
    \/ \E device \in 1..Len(devs) : MiracastService_Connect(device)
    \/ \E role \in {"GO", "client"} : OnP2pGroupStarted(role, TRUE)
    \/ \E reason \in Reasons : OnP2pGroupRemoved(reason)
    \/ OnP2pGoNegFailure
    \/ \E ok \in BOOLEAN : OnReply(ok)
    \/ OnAddressAssigned
    \/ OnIdleTimer

SpecSession == InitSession /\ [][NextSession]_vars

\* Discovery followed by a Connect: scans, their replies and P2P-FIND-STOPPED,
\* peers found, Connect.
NextDiscovery ==
    \/ MiracastService_SetEnabled(TRUE, TRUE)
    \/ OnConnectSupplicant(TRUE)
    \/ \E ok \in BOOLEAN : OnReply(ok)
    \/ \E timeout \in {0, 1} : MiracastService_Scan(timeout)
    \/ OnP2pFindStopped
    \/ \E addr \in Addrs : OnP2pDeviceFound(addr, Names[1], "primary-sink")
    \/ \E device \in 1..Len(devs) : MiracastService_Connect(device)

SpecDiscovery == InitSession /\ [][NextDiscovery]_vars

\* Termination: the signals and the grace one-shot of Main's Runtime, with a
\* service that is enabled, attached and in a session with one peer.
NextShutdown ==
    \/ \E flag \in BOOLEAN : MiracastService_SetEnabled(flag, TRUE)
    \/ OnConnectSupplicant(TRUE)
    \/ OnP2pDeviceFound(AddrSeq[1], Names[1], "primary-sink")
    \/ \E device \in 1..Len(devs) : MiracastService_Connect(device)
    \/ OnP2pGroupStarted("GO", TRUE)
    \/ \E ok \in BOOLEAN : OnReply(ok)
    \/ \E sig \in Signals : OnSignalRaised(sig)
    \/ \E sig \in Signals : OnSignalDefault(sig)
    \/ OnShutdownGrace

SpecShutdown == Init /\ [][NextShutdown]_vars

\* The command queue across a crash of the supplicant. The respawn one-shot and
\* the 500 ms connect timer are dispatched once armed, and a running supplicant
\* answers the request written to it: these are weakly fair.
NextQueueProgress ==
    \/ MiracastService_SetEnabled(TRUE, TRUE)
    \/ OnConnectSupplicant(TRUE)
    \/ \E ok \in BOOLEAN : OnReply(ok)
    \/ OnSupplicantWatch(FALSE)
    \/ OnSupplicantRespawn(TRUE)

SpecQueueProgress ==
    /\ InitSession
    /\ [][NextQueueProgress]_vars
    /\ WF_vars(OnConnectSupplicant(TRUE))
    /\ WF_vars(OnSupplicantRespawn(TRUE))
    /\ WF_vars(\E ok \in BOOLEAN : OnReply(ok))

\* Connect attempts with one peer and the timers of the manager. An armed GLib
\* timeout source is dispatched once its interval has passed: the timer
\* handlers are weakly fair.
NextPeerFailure ==
    \/ MiracastService_SetEnabled(TRUE, TRUE)
    \/ OnConnectSupplicant(TRUE)
    \/ OnP2pDeviceFound(AddrSeq[1], Names[1], "primary-sink")
    \/ \E device \in 1..Len(devs) : MiracastService_Connect(device)
    \/ OnP2pGroupStarted("client", TRUE)
    \/ \E reason \in Reasons : OnP2pGroupRemoved(reason)
    \/ OnP2pGoNegFailure
    \/ \E ok \in BOOLEAN : OnReply(ok)
    \/ OnAddressAssigned
    \/ \E which \in {"live", "orphan"} : OnGroupClientDhcpTimeout(which)
    \/ OnDeviceFailureTimeout

SpecPeerFailure ==
    /\ InitSession
    /\ [][NextPeerFailure]_vars
    /\ WF_vars(OnDeviceFailureTimeout)
    /\ \A which \in {"live", "orphan"} : WF_vars(OnGroupClientDhcpTimeout(which))

\* -------------------------------------------------------------- properties

\* the step notified the delegate that device d reached state s
Notified(d, s) ==
    \E i \in 1..Len(out') : out'[i] = Note("mgr.OnDeviceStateChanged", d, s)

\* C1: MiracastService::Connect reports the first failing gate, in the order
\* not enabled (NotReady), current device set (Already), null device
\* (ParamInvalid), through the call's own callback, once and within the call; a
\* rejected call enqueues nothing, does not take the display lock and leaves
\* current_device_ and connect_callback_ alone.
C1_ConnectGates ==
    [][\A device \in 0..Len(devs) :
          MiracastService_Connect(device) =>
              LET rejected(error) ==
                      /\ out' = <<Note("cb", ncb + 1, error)>>
                      /\ UNCHANGED <<queue, lock, current_device, connect_callback, cb_log>>
              IN /\ ~enabled => rejected("NotReady")
                 /\ (enabled /\ current_device # Null) => rejected("Already")
                 /\ (enabled /\ current_device = Null /\ device = Null)
                        => rejected("ParamInvalid")
      ]_vars

\* a Connect was just answered Already
C1_Witness ==
    /\ out = <<Note("cb", ncb + 1, "Already")>>
    /\ current_device # Null

\* C2: the completion of every accepted Connect is invoked exactly once: never
\* twice, and once its session is over (the service holds no current device, or a
\* later Connect was accepted) it has been invoked.
C2_CallbackExactlyOnce ==
    \A c \in 1..ncb :
        /\ Len(cb_log[c]) <= 1
        /\ (c < ncb \/ current_device = Null) => Len(cb_log[c]) = 1

\* C3: a completion is invoked only while it is the stored one of the running
\* session and has not been invoked before, with None in the step that takes the
\* session's device to Connected and with Failed in the step that takes it to
\* Failure; the first such step does invoke it.  So no later state change of the
\* session and no event of a later session invokes it again.
C3_CompletionOnFirstOutcome ==
    [][/\ \A c \in 1..MaxConnects :
            cb_log'[c] # cb_log[c] =>
                /\ c = connect_callback /\ c = ncb
                /\ cb_log[c] = <<>>
                /\ current_device # Null
                /\ \/ Notified(current_device, "Connected") /\ cb_log'[c] = <<"None">>
                   \/ Notified(current_device, "Failure") /\ cb_log'[c] = <<"Failed">>
       /\ (current_device # Null /\ connect_callback # Null) =>
            /\ Notified(current_device, "Connected")
                   => cb_log'[connect_callback] = <<"None">> /\ connect_callback' = Null
            /\ Notified(current_device, "Failure")
                   => cb_log'[connect_callback] = <<"Failed">> /\ connect_callback' = Null
      ]_vars

\* a session that reached Connected and then Failure invoked its completion once
C3_Witness ==
    /\ ncb = 1
    /\ cb_log[1] = <<"None">>
    /\ current_state = "Failure"

\* C4: while the manager has a current peer, a service Connect for another
\* device is answered Already and enqueues nothing.
C4_ConnectWhilePeerSet ==
    [][\A device \in 1..Len(devs) :
          (MiracastService_Connect(device) /\ current_peer # Null /\ device # current_peer)
              => /\ out' = <<Note("cb", ncb + 1, "Already")>>
                 /\ queue' = queue
      ]_vars

\* C5: a Connect that reaches the manager is refused exactly when current_peer_
\* is set or the device's address is not in available_devices_; refused, it
\* enqueues nothing and leaves current_peer_, available_devices_, scanning_ and
\* is_group_owner_ alone; accepted, it makes the map's entry for the address the
\* current peer and invokes no callback.
C5_ManagerConnect ==
    [][\A device \in 1..Len(devs) :
          (MiracastService_Connect(device) /\ enabled /\ current_device = Null) =>
              IF current_peer = Null /\ available_devices[devs[device].addr] # Null
              THEN /\ current_peer' = available_devices[devs[device].addr]
                   /\ current_peer' # Null
                   /\ out' = <<>>
              ELSE /\ out' = <<Note("cb", ncb + 1, "Failed")>>
                   /\ UNCHANGED <<queue, current_peer, available_devices, scanning,
                                  is_group_owner>>
      ]_vars

\* the manager just refused a Connect because it has a current peer
C5_Witness ==
    /\ out = <<Note("cb", ncb + 1, "Failed")>>
    /\ current_peer # Null

\* C6: a set current_peer_ is the entry of available_devices_ for its address.
C6_CurrentPeerInMap ==
    current_peer # Null => available_devices[devs[current_peer].addr] = current_peer

\* C7: a step in which the manager advances the current peer to Failure or
\* Disconnected leaves current_peer_ unset, and an OK reply to P2P_CONNECT
\* changes neither any device state nor current_peer_.
C7_TerminalClearsPeer ==
    [][/\ (current_peer # Null /\ \E s \in {"Failure", "Disconnected"} :
                                      Notified(current_peer, s))
            => current_peer' = Null
       /\ (OnReply(TRUE) /\ queue # <<>> /\ Head(queue).name = "P2P_CONNECT")
            => UNCHANGED <<devs, current_peer>>
      ]_vars

\* C8: scanning_ holds exactly while the latest OK reply to a P2P_FIND has been
\* followed neither by P2P-FIND-STOPPED nor by a reset of the manager.
C8_ScanningIffFindLive ==
    scanning = find_ok_live

\* C9: Scan called while scanning_ holds, with a timeout or without, enqueues
\* nothing, notifies nobody and leaves the manager's state as it was.
C9_ScanWhileScanning ==
    [][\A timeout \in {0, 1} :
          (MiracastService_Scan(timeout) /\ enabled /\ current_device = Null /\ scanning)
              => /\ UNCHANGED mgr_vars
                 /\ out' = <<Note("ret", Null, "None")>>
      ]_vars

\* Scan just returned with a scan already running
C9_Witness ==
    /\ scanning
    /\ out = <<Note("ret", Null, "None")>>

\* C10: once P2P-GROUP-STARTED was handled for the current peer, and while that
\* peer is in Configuration or Connected, exactly one of the DHCP client and the
\* DHCP server is running.
C10_OneDhcpRole ==
    (/\ current_peer # Null
     /\ group_started
     /\ devs[current_peer].state \in {"Configuration", "Connected"})
        => (dhcp_client # dhcp_server)

\* C11: respawn_limit_ stays within 0..kSupplicantRespawnLimit; a successful
\* connect of the control socket sets it back to the limit; a supplicant failure
\* with a budget left takes one off and schedules a respawn; a supplicant failure
\* with none left schedules nothing, so that no respawn is pending and no
\* supplicant runs after it.
C11_RespawnBudget ==
    [][/\ respawn_limit' \in 0..kSupplicantRespawnLimit
       /\ (OnConnectSupplicant(TRUE) /\ sup_alive)
            => respawn_limit' = kSupplicantRespawnLimit
       /\ OnSupplicantWatch(FALSE) =>
             IF respawn_limit > 0
             THEN respawn_limit' = respawn_limit - 1 /\ respawn_source' = "live"
             ELSE respawn_limit' = 0 /\ respawn_source' # "live" /\ ~sup_alive'
      ]_vars

\* the supplicant was started eleven times, never connected, and failed each
\* time: the budget is spent and nothing is scheduled
C11_Witness ==
    /\ enabled
    /\ respawn_limit = 0
    /\ connect_timers = kSupplicantRespawnLimit + 1
    /\ ~sup_alive
    /\ respawn_source = "stale"

\* C12: the supplicant exits with a non-zero status while the current peer is
\* Connected and respawn_limit_ is positive: the peer is advanced to Disconnected
\* and the delegate told; current_peer_ is cleared; neither DHCP side runs and no
\* DHCP-assignment timer stays armed; OnDeviceLost is emitted once for every peer
\* of the map and the map is emptied; is_group_owner_ is false; respawn_limit_
\* is one less and a respawn is scheduled.
C12_CrashDuringSession ==
    [][(/\ OnSupplicantWatch(FALSE)
        /\ current_peer # Null
        /\ devs[current_peer].state = "Connected"
        /\ respawn_limit > 0)
          => /\ Notified(current_peer, "Disconnected")
             /\ devs'[current_peer].state = "Disconnected"
             /\ current_peer' = Null
             /\ ~dhcp_client' /\ ~dhcp_server'
             /\ dhcp_timeout' # "live" /\ dhcp_orphans' = 0
             /\ \A a \in Addrs :
                    available_devices[a] # Null =>
                        Cardinality({i \in 1..Len(out') :
                            out'[i] = Note("mgr.OnDeviceLost", available_devices[a], "")}) = 1
             /\ available_devices' = NoDevices
             /\ ~is_group_owner'
             /\ respawn_limit' = respawn_limit - 1
             /\ respawn_source' = "live"
      ]_vars

\* C13: client path. P2P-GROUP-STARTED with a role other than GO, received while
\* current_peer_ is set, sets is_group_owner_ to false, advances the peer to
\* Configuration and not to Connected, starts the DHCP client and arms the
\* DHCP-assignment timer. The address assignment that follows cancels the timer
\* and advances the peer to Connected; afterwards no DHCP-assignment timer is
\* left that could fire for the session, and the stored completion of the
\* service is invoked with None.
C13_ClientPath ==
    [][/\ \A started \in BOOLEAN :
            (OnP2pGroupStarted("client", started) /\ current_peer # Null)
              => /\ ~is_group_owner'
                 /\ Notified(current_peer, "Configuration")
                 /\ ~Notified(current_peer, "Connected")
                 /\ devs'[current_peer].state = "Configuration"
                 /\ started => dhcp_client'
                 /\ dhcp_timeout' = "live"
       /\ (OnAddressAssigned /\ current_peer # Null /\ dhcp_timeout = "live")
              => /\ dhcp_timeout' = "none"
                 /\ Notified(current_peer, "Connected")
                 /\ devs'[current_peer].state = "Connected"
                 /\ dhcp_orphans' = 0
                 /\ (current_device = current_peer /\ connect_callback # Null)
                       => \E i \in 1..Len(out') :
                              out'[i] = Note("cb", connect_callback, "None")
      ]_vars

\* the positions in the log of the step at which the note n was made
Positions(n) == {i \in 1..Len(out') : out'[i] = n}

\* C14: group-owner path. P2P-GROUP-STARTED with role GO, received while
\* current_peer_ is set, sets is_group_owner_ to true and, within that one
\* handler, reports Configuration, then starts the DHCP server, then reports
\* Connected; it starts no DHCP client and arms no DHCP-assignment timer.
C14_GroupOwnerPath ==
    [][\A started \in BOOLEAN :
          (OnP2pGroupStarted("GO", started) /\ current_peer # Null)
            => /\ is_group_owner'
               /\ \E i, j, k \in 1..Len(out') :
                     /\ i < j /\ j < k
                     /\ Positions(Note("mgr.OnDeviceStateChanged", current_peer,
                                       "Configuration")) = {i}
                     /\ Positions(Note("dhcp_server.Start", Null, "")) = {j}
                     /\ Positions(Note("mgr.OnDeviceStateChanged", current_peer,
                                       "Connected")) = {k}
               /\ devs'[current_peer].state = "Connected"
               /\ started => dhcp_server'
               /\ Positions(Note("dhcp_client.Start", Null, "")) = {}
               /\ dhcp_client' = dhcp_client
               /\ dhcp_timeout' = dhcp_timeout /\ dhcp_orphans' = dhcp_orphans
      ]_vars

\* a group was started with this side as owner: the current peer is Connected,
\* the server runs, no client and no DHCP-assignment timer
C14_Witness ==
    /\ current_peer # Null /\ is_group_owner
    /\ devs[current_peer].state = "Connected"
    /\ dhcp_server /\ ~dhcp_client /\ dhcp_timeout = "none"
    /\ \E i \in 1..Len(out) : out[i] = Note("dhcp_server.Start", Null, "")

\* C15: when the DHCP-assignment timer fires with no address assigned, the
\* current peer is advanced to Failure; when the peer-failure timer armed by
\* that timeout fires, the state of that peer is Idle.
C15_DhcpTimeout ==
    [][/\ (OnGroupClientDhcpTimeout("live") /\ current_peer # Null)
            => /\ Notified(current_peer, "Failure")
               /\ devs'[current_peer].state = "Failure"
               /\ failure_timers' = Append(failure_timers, current_peer)
       /\ OnDeviceFailureTimeout
            => /\ ~crashed'
               /\ devs'[Head(failure_timers)].state = "Idle"
      ]_vars

\* C16: P2P-GROUP-REMOVED received while current_peer_ is set leaves no DHCP
\* side running, advances the peer to Failure exactly for the reasons
\* FORMATION_FAILED, PSK_FAILURE and FREQ_CONFLICT and to Disconnected for any
\* other or no reason, and clears current_peer_; received while current_peer_
\* is absent it changes nothing and notifies nobody.
C16_GroupRemoved ==
    [][\A reason \in Reasons :
          OnP2pGroupRemoved(reason) =>
            IF current_peer # Null
            THEN /\ ~dhcp_client' /\ ~dhcp_server'
                 /\ IF reason \in {"FORMATION_FAILED", "PSK_FAILURE", "FREQ_CONFLICT"}
                    THEN /\ Notified(current_peer, "Failure")
                         /\ devs'[current_peer].state = "Failure"
                    ELSE /\ Notified(current_peer, "Disconnected")
                         /\ devs'[current_peer].state = "Disconnected"
                 /\ current_peer' = Null
            ELSE /\ UNCHANGED <<svc_vars, devs, mgr_vars, sup_vars, crashed>>
                 /\ out' = <<>>
      ]_vars

\* C17: the display-state lock is never released more often than it was
\* acquired, and in every state in which the service has no current device
\* the service holds no acquisition of it.
C17_DisplayLock ==
    /\ lock >= 0
    /\ current_device = Null => lock = 0

\* the service reported the state s in this step: the positions of
\* OnStateChanged(s) in the log of the step
StateChanged(s) == Positions(Note("svc.OnStateChanged", Null, s))

\* C18: every step in which the service state becomes Disconnected or Failure
\* arms one idle one-shot per such report; when an idle one-shot fires, the
\* reported state becomes Idle and OnStateChanged(Idle) is the notification
\* made (in particular when no new session was started in between).
C18_IdleAfterSessionEnd ==
    [][/\ (current_state' \in {"Disconnected", "Failure"} /\ current_state' # current_state)
            => StateChanged(current_state') # {}
       /\ ~OnIdleTimer
            => idle_timers' = idle_timers + Cardinality(StateChanged("Disconnected")
                                                        \cup StateChanged("Failure"))
       /\ OnIdleTimer
            => /\ idle_timers' = idle_timers - 1
               /\ current_state' = "Idle"
               /\ out' = <<Note("svc.OnStateChanged", Null, "Idle")>>
      ]_vars

\* a session ended in Disconnected or Failure and the idle one-shot it armed
\* has fired, with no other session started
C18_Witness ==
    /\ ncb = 1 /\ current_device = Null /\ idle_timers = 0
    /\ \E d \in 1..Len(devs) : devs[d].state \in {"Disconnected", "Failure"}
    /\ current_state = "Idle"
    /\ out = <<Note("svc.OnStateChanged", Null, "Idle")>>

\* C19: in every state the reported state of the service equals the state of
\* its current device when it has one (so no idle one-shot of an earlier
\* session leaves it at Idle while the device of a later session is in
\* Configuration or Connected), and it is not Connected or Configuration
\* while the service is disabled.
C19_ReportedState ==
    /\ current_device # Null => current_state = devs[current_device].state
    /\ ~enabled => current_state \notin {"Connected", "Configuration"}

\* the idle one-shot of an earlier session fires while the device of the
\* present session is in Configuration or Connected and leaves the reported
\* state as it was
IdleTimerOfEarlierSession ==
    [][(/\ OnIdleTimer
        /\ current_device # Null
        /\ devs[current_device].state \in {"Configuration", "Connected"})
          => current_state' = devs'[current_device'].state
      ]_vars

\* the number of OnChanged notifications the service made in this step
OnChangedCount == Cardinality(Positions(Note("svc.OnChanged", Null, "")))

\* C20: SetEnabled(flag) emits OnChanged exactly when enabled_ changes value.
\* Called with the present value it changes no state and notifies nobody; an
\* enable whose manager cannot be created or set up leaves enabled_ false with
\* no manager (no supplicant, no timer of it) and notifies nobody; a successful
\* enable or disable sets enabled_ to flag and emits OnChanged once.
C20_SetEnabled ==
    [][\A flag \in BOOLEAN, setup_ok \in BOOLEAN :
          MiracastService_SetEnabled(flag, setup_ok) =>
            /\ OnChangedCount = (IF enabled' # enabled THEN 1 ELSE 0)
            /\ flag = enabled =>
                  /\ UNCHANGED <<svc_vars, devs, mgr_vars, sup_vars, stale_sources, crashed>>
                  /\ out' = <<>>
            /\ (flag /\ ~enabled /\ ~setup_ok) =>
                  /\ ~enabled' /\ out' = <<>>
                  /\ ~sup_alive' /\ supplicant_pid' = 0 /\ connect_timers' = 0
                  /\ UNCHANGED <<svc_vars, devs, mgr_vars>>
            /\ (flag # enabled /\ (flag => setup_ok)) =>
                  /\ enabled' = flag
                  /\ OnChangedCount = 1
                  /\ out'[Len(out')] = Note("svc.OnChanged", Null, "")
      ]_vars

\* the service was disabled while it knew a peer, and OnChanged was the last
\* notification of that call
C20_Witness ==
    /\ ~enabled /\ Len(devs) > 0
    /\ out # <<>> /\ out[Len(out)] = Note("svc.OnChanged", Null, "")

\* what is in flight is one request at most, and it is the oldest of the queue
OneInFlight ==
    /\ Len(wire) <= 1
    /\ wire # <<>> => queue # <<>> /\ wire[1] = Head(queue)

\* C21: at most one request is in flight to the supplicant. Requests leave the
\* queue in the order they entered it (the queue grows at its tail and shrinks
\* at its head only); a request is written only when the queue was empty or the
\* reply to the previous one was handled; every OK/FAIL reply pops the oldest
\* request and runs its completion. The requests of a transport connect are
\* ATTACH, SET wifi_display 1, WFD_SUBELEM_SET in that order, ATTACH written
\* first.
C21_OneRequestInFlight ==
    [][/\ OneInFlight /\ OneInFlight'
       /\ \/ queue' = queue
          \/ Len(queue') > Len(queue) /\ SubSeq(queue', 1, Len(queue)) = queue
          \/ queue # <<>> /\ queue' = Tail(queue)
          \/ queue' = <<>> /\ ~enabled'
       /\ (wire' # wire /\ wire' # <<>>)
            => \/ queue = <<>>
               \/ wire # <<>> /\ \E ok \in BOOLEAN : OnReply(ok)
       /\ \A ok \in BOOLEAN :
            (OnReply(ok) /\ queue # <<>>)
              => /\ wire = <<Head(queue)>>
                 /\ queue' = Tail(queue)
                 /\ wire' = (IF queue' # <<>> THEN <<Head(queue')>> ELSE <<>>)
                 /\ Head(queue).name = "P2P_FIND" => scanning' = ok
                 /\ (Head(queue).name = "P2P_CONNECT" /\ ~ok /\ current_peer # Null)
                       => Notified(current_peer, "Failure")
       /\ (OnConnectSupplicant(TRUE) /\ sup_alive /\ queue = <<>>)
            => /\ queue' = <<Cmd("ATTACH", ""), Cmd("SET", "wifi_display 1"),
                             Cmd("WFD_SUBELEM_SET", "0 000600101C440032")>>
               /\ wire' = <<Cmd("ATTACH", "")>>
      ]_vars

\* ATTACH was answered and SET wifi_display 1 is in flight, WFD_SUBELEM_SET
\* waiting behind it
C21_Witness ==
    /\ wire = <<Cmd("SET", "wifi_display 1")>>
    /\ queue = <<Cmd("SET", "wifi_display 1"), Cmd("WFD_SUBELEM_SET", "0 000600101C440032")>>

\* the peer map holds the device d
InMap(d) == \E a \in Addrs : available_devices[a] = d

\* the state of the device d, "none" before the object exists
StateOf(d) == IF d \in DOMAIN devs THEN devs[d].state ELSE "none"

\* C22: every peer that is in Failure and in the peer map eventually has the
\* state Idle again, unless it leaves the map first (or the run has used up
\* its handlers).
C22_FailureIsTransient ==
    \A d \in 1..MaxDevices :
        (InMap(d) /\ StateOf(d) = "Failure")
            ~> (StateOf(d) = "Idle" \/ ~InMap(d) \/ steps = MaxSteps)

\* C23: MiracastService::Disconnect(device, cb) with a completion invokes it
\* within the call, exactly once: NotReady when the service is disabled;
\* ParamInvalid when there is no current device or device is null; Failed when
\* device is not the manager's current peer; None otherwise. The call changes
\* neither the current device nor the reported state of the service.
C23_DisconnectAnswers ==
    [][\A device \in 0..MaxDevices :
          MiracastService_Disconnect(device) =>
            /\ out' = <<Note("dcb", Null,
                            IF ~enabled THEN "NotReady"
                            ELSE IF current_device = Null \/ device = Null THEN "ParamInvalid"
                            ELSE IF current_peer # device THEN "Failed"
                            ELSE "None")>>
            /\ UNCHANGED <<current_device, current_state, connect_callback, lock, devs>>
      ]_vars

\* a Disconnect for a device that is not the current peer was answered Failed
\* while a session with another device goes on
C23_Witness ==
    /\ out = <<Note("dcb", Null, "Failed")>>
    /\ current_device # Null /\ current_peer = current_device

\* the step is a call of MiracastService::Disconnect, with or without a
\* completion, that reaches NetworkManager::Disconnect(device)
ManagerDisconnectCalled(device) ==
    /\ enabled /\ current_device # Null /\ device # Null
    /\ \/ MiracastService_Disconnect(device)
       \/ device = current_device /\ MiracastService_DisconnectAll
       \/ device = current_device /\ OnClientDisconnectedTimeout

\* C24: NetworkManager::Disconnect(device) with current_peer_ equal to device
\* enqueues exactly one request, P2P_CANCEL for a peer in Association and
\* P2P_GROUP_REMOVE p2p0 for a peer in any other state; with current_peer_
\* absent or another device it enqueues nothing and reports failure.
C24_ManagerDisconnect ==
    [][/\ \A state \in States :
            DisconnectRequest(state) =
                IF state = "Association" THEN Cmd("P2P_CANCEL", "")
                ELSE Cmd("P2P_GROUP_REMOVE", "p2p0")
       /\ \A device \in 1..MaxDevices :
            ManagerDisconnectCalled(device) =>
              IF current_peer = device
              THEN /\ queue' = Append(queue, DisconnectRequest(devs[device].state))
                   /\ \A i \in 1..Len(out') : out'[i].s # "Failed"
              ELSE /\ UNCHANGED <<queue, wire>>
                   /\ MiracastService_Disconnect(device)
                         => out' = <<Note("dcb", Null, "Failed")>>
      ]_vars

\* a Disconnect for the current peer was accepted and its P2P_GROUP_REMOVE is
\* the newest request of the queue
C24_Witness ==
    /\ current_peer # Null /\ queue # <<>>
    /\ queue[Len(queue)] = Cmd("P2P_GROUP_REMOVE", "p2p0")
    /\ out = <<Note("dcb", Null, "None")>>

\* C25: an accepted NetworkManager::Connect enqueues P2P_CONNECT <address> pbc
\* once, behind a P2P_STOP_FIND when scanning_ holds at the call and alone when
\* it does not; a P2P_STOP_FIND in the queue is always directly in front of a
\* P2P_CONNECT, so it is written to the supplicant before it.
C25_ConnectRequests ==
    [][/\ \A device \in 1..MaxDevices :
            (/\ device <= Len(devs)
             /\ MiracastService_Connect(device)
             /\ enabled /\ current_device = Null
             /\ current_peer = Null /\ available_devices[devs[device].addr] # Null)
               => /\ queue' = queue
                              \o (IF scanning THEN <<Cmd("P2P_STOP_FIND", "")>> ELSE <<>>)
                              \o <<Cmd("P2P_CONNECT", devs[device].addr \o " pbc")>>
                  /\ (queue = <<>> /\ connected /\ sup_alive)
                        => wire' = <<Cmd(IF scanning THEN "P2P_STOP_FIND" ELSE "P2P_CONNECT",
                                         IF scanning THEN "" ELSE devs[device].addr \o " pbc")>>
       /\ \A i \in 1..Len(queue') :
              queue'[i].name = "P2P_STOP_FIND"
                => i < Len(queue') /\ queue'[i + 1].name = "P2P_CONNECT"
       /\ (wire' # <<>> /\ wire'[1].name = "P2P_CONNECT")
              => \A i \in 1..Len(queue') : queue'[i].name # "P2P_STOP_FIND"
      ]_vars

\* a Connect made during a scan: P2P_STOP_FIND is in flight and P2P_CONNECT
\* waits behind it
C25_Witness ==
    /\ scanning /\ current_peer # Null
    /\ wire = <<Cmd("P2P_STOP_FIND", "")>>
    /\ queue = <<Cmd("P2P_STOP_FIND", ""), Cmd("P2P_CONNECT", devs[current_peer].addr \o " pbc")>>

\* the on_device_found notifications of this step
DeviceFoundCount == Cardinality({i \in 1..Len(out') : out'[i].k = "mgr.OnDeviceFound"})

\* C26: P2P-DEVICE-FOUND for an unsupported device type leaves the peer map and
\* the peers unchanged and emits nothing; for a supported peer with an address
\* not in the map it adds one entry under that address in state Idle and emits
\* on_device_found for it once; for an address in the map it assigns name and
\* roles on the existing entry, keeps its state, its identity, the map and
\* current_peer_, and emits no on_device_found.
C26_DeviceFound ==
    [][\A addr \in Addrs, n \in 1..Len(Names), device_type \in DeviceTypes :
          OnP2pDeviceFound(addr, Names[n], device_type) =>
            /\ ~IsSupported(device_type) =>
                  /\ UNCHANGED <<available_devices, devs, current_peer>>
                  /\ out' = <<>>
            /\ (IsSupported(device_type) /\ available_devices[addr] = Null) =>
                  /\ available_devices' = [available_devices EXCEPT ![addr] = Len(devs) + 1]
                  /\ Len(devs') = Len(devs) + 1
                  /\ \A d \in 1..Len(devs) : devs'[d] = devs[d]
                  /\ devs'[Len(devs')].addr = addr
                  /\ devs'[Len(devs')].name = Names[n]
                  /\ devs'[Len(devs')].state = "Idle"
                  /\ DeviceFoundCount = 1
                  /\ Positions(Note("mgr.OnDeviceFound", Len(devs'), "")) # {}
                  /\ UNCHANGED current_peer
            /\ (IsSupported(device_type) /\ available_devices[addr] # Null) =>
                  LET device == available_devices[addr]
                  IN /\ UNCHANGED <<available_devices, current_peer>>
                     /\ Len(devs') = Len(devs)
                     /\ \A d \in 1..Len(devs) : d # device => devs'[d] = devs[d]
                     /\ devs'[device].addr = addr
                     /\ devs'[device].state = devs[device].state
                     /\ devs'[device].name = Names[n]
                     /\ ("Sink" \in {devs'[device].roles[i] : i \in 1..Len(devs'[device].roles)})
                            <=> device_type \in {"primary-sink", "dual"}
                     /\ ("Source" \in {devs'[device].roles[i] : i \in 1..Len(devs'[device].roles)})
                            <=> device_type \in {"source", "dual"}
                     /\ DeviceFoundCount = 0
      ]_vars

\* the current peer of a session in Connected was found again, under another
\* name and with other roles than before
C26_Witness ==
    /\ current_peer # Null
    /\ devs[current_peer].state = "Connected"
    /\ devs[current_peer].name = Names[2]
    /\ devs[current_peer].roles = <<"Sink", "Source">>
    /\ out = <<>>

\* the on_device_lost notifications of this step for a device
DeviceLostCount(device) == Cardinality(Positions(Note("mgr.OnDeviceLost", device, "")))

\* C27: P2P-DEVICE-LOST carrying the address of a known peer under the key
\* p2p_dev_addr or p2p_dev_address removes that peer from the map and emits
\* on_device_lost for it once; with an unknown address it changes nothing and
\* emits nothing.
C27_DeviceLost ==
    [][\A key \in LostKeys, addr \in Addrs :
          OnP2pDeviceLost(key, addr) =>
            IF available_devices[addr] # Null
            THEN /\ available_devices' = [available_devices EXCEPT ![addr] = Null]
                 /\ DeviceLostCount(available_devices[addr]) = 1
            ELSE /\ UNCHANGED <<available_devices, devs>>
                 /\ out' = <<>>
      ]_vars

\* the part of C27 the handler keeps: the key it reads
DeviceLostUnderReadKey ==
    [][\A addr \in Addrs :
          OnP2pDeviceLost(LostKey, addr) =>
            IF available_devices[addr] # Null
            THEN /\ available_devices' = [available_devices EXCEPT ![addr] = Null]
                 /\ DeviceLostCount(available_devices[addr]) = 1
            ELSE /\ UNCHANGED <<available_devices, devs>>
                 /\ out' = <<>>
      ]_vars

\* C28: a hang-up on the control socket is handled like a crash of the
\* supplicant: the current peer, if any, is reported Disconnected and cleared,
\* every peer is reported lost and the map is emptied, and a respawn is
\* scheduled when the respawn budget is not used up.
C28_HupIsCrash ==
    [][OnIncomingHup =>
          /\ current_peer' = Null
          /\ available_devices' = NoDevices
          /\ current_peer # Null =>
                Positions(Note("mgr.OnDeviceStateChanged", current_peer, "Disconnected")) # {}
          /\ \A a \in Addrs : available_devices[a] # Null =>
                Positions(Note("mgr.OnDeviceLost", available_devices[a], "")) # {}
          /\ respawn_limit > 0 =>
                respawn_source' = "live" /\ respawn_limit' = respawn_limit - 1
      ]_vars

\* a termination signal arrives: its source dispatches OnSignalRaised, or its
\* default disposition acts
SignalArrives(sig) == OnSignalRaised(sig) \/ OnSignalDefault(sig)

\* C29: the first SIGINT or SIGTERM runs Shutdown (the service is disabled) and
\* arms the grace one-shot, whose expiry quits the loop; a SIGINT or SIGTERM
\* arriving while the grace one-shot is pending ends the loop in that step and
\* does not run OnSignalRaised (Shutdown) again.
C29_Termination ==
    [][/\ \A sig \in Signals :
            /\ (SignalArrives(sig) /\ grace_timers = 0) =>
                  /\ OnSignalRaised(sig)
                  /\ ~enabled'
                  /\ grace_timers' = 1
                  /\ loop' = "running"
            /\ (SignalArrives(sig) /\ grace_timers > 0) =>
                  /\ loop' # "running"
                  /\ grace_timers' = grace_timers
       /\ OnShutdownGrace => loop' = "quit"
      ]_vars

\* the part of C29 the Runtime keeps: the first signal shuts the service down
\* and arms one grace one-shot, the one-shot quits the loop, and the signal of
\* the first kind, raised again, ends the process at once
FirstSignalShutsDown ==
    [][/\ \A sig \in Signals :
            /\ (SignalArrives(sig) /\ grace_timers = 0) =>
                  /\ OnSignalRaised(sig)
                  /\ ~enabled'
                  /\ grace_timers' = 1
                  /\ loop' = "running"
            /\ (SignalArrives(sig) /\ sig \notin signal_sources) =>
                  /\ loop' = "killed"
                  /\ grace_timers' = grace_timers
       /\ OnShutdownGrace => loop' = "quit"
      ]_vars

\* C30: Disconnect with a null completion, as the deferred call of
\* OnClientDisconnected makes it, takes the decisions of a call with a
\* completion - the manager's Disconnect is performed exactly when the service
\* is enabled, has a current device and the manager accepts the device - and
\* never invokes the null completion: no completion is reported and the
\* process does not die of the call.
C30_NullCallback ==
    [][OnClientDisconnectedTimeout =>
          /\ ~crashed'
          /\ \A i \in 1..Len(out') : out'[i].k # "dcb"
          /\ IF /\ enabled /\ current_device # Null
                /\ NetworkManager_DisconnectAccepts(current_device)
             THEN queue' = Append(queue, DisconnectCommand)
             ELSE UNCHANGED <<queue, wire>>
      ]_vars

\* the part of C30 that holds: with the service enabled the null completion is
\* not invoked and the decisions are those of a call with a completion
NullCallbackWhileEnabled ==
    [][(OnClientDisconnectedTimeout /\ enabled) =>
          /\ ~crashed'
          /\ \A i \in 1..Len(out') : out'[i].k # "dcb"
          /\ IF /\ current_device # Null
                /\ NetworkManager_DisconnectAccepts(current_device)
             THEN queue' = Append(queue, DisconnectCommand)
             ELSE UNCHANGED <<queue, wire>>
      ]_vars

\* C31: when the DHCP server (role GO) or the DHCP client (role client) cannot
\* be started on P2P-GROUP-STARTED, the current peer is advanced to Failure and
\* is not reported Connected.
C31_DhcpStartFailure ==
    [][\A role \in {"GO", "client"} :
          (OnP2pGroupStarted(role, FALSE) /\ current_peer # Null) =>
            /\ devs'[current_peer].state = "Failure"
            /\ Notified(current_peer, "Failure")
            /\ ~Notified(current_peer, "Connected")
      ]_vars

\* C32: whenever the peer-failure one-shot armed by the DHCP-assignment timeout
\* fires, current_peer_ is set and is the peer whose DHCP assignment timed out;
\* the handler does not run into an absent current_peer_.
C32_FailureTimeoutHasPeer ==
    [][OnDeviceFailureTimeout =>
          /\ current_peer # Null
          /\ current_peer = Head(failure_timers)
          /\ ~crashed'
      ]_vars

\* the armed DHCP-assignment timers: the one dhcp_timeout_ names and those it
\* no longer names
DhcpTimersArmed == (IF dhcp_timeout = "live" THEN 1 ELSE 0) + dhcp_orphans

\* C33: a DHCP-assignment timer belongs to the session that armed it: at most
\* one is armed at any time, also after a repeated P2P-GROUP-STARTED in the
\* client role, and none remains armed once P2P-GROUP-REMOVED or
\* P2P-GO-NEG-FAILURE has cleared current_peer_ (so none can advance the peer
\* of a later session to Failure).
C33_DhcpTimerScoped ==
    [][/\ DhcpTimersArmed' <= 1
       /\ (/\ (\E reason \in Reasons : OnP2pGroupRemoved(reason)) \/ OnP2pGoNegFailure
           /\ current_peer # Null)
             => DhcpTimersArmed' = 0
      ]_vars

\* C34: in every state without a current peer neither the DHCP client nor the
\* DHCP server runs: whatever cleared current_peer_ has stopped those that
\* were started.
C34_NoPeerNoDhcp ==
    current_peer = Null => (~dhcp_client /\ ~dhcp_server)

\* C35: service and manager agree on whether a session exists: between events
\* current_device_ is set exactly when the manager's current_peer_ is set (so
\* a Connect made after an attempt ended in Failure is not refused by a
\* manager that still holds the peer of that attempt).
C35_SessionAgreement ==
    enabled => ((current_device # Null) <=> (current_peer # Null))

\* C36: no device and no reported state is ever Association: an accepted
\* Connect leaves every device's state as it was, and a Disconnect accepted
\* before P2P-GROUP-STARTED was handled for the current peer requests
\* P2P_GROUP_REMOVE for the interface.
C36_NoAssociation ==
    [][/\ \A d \in 1..Len(devs') : devs'[d].state # "Association"
       /\ current_state' # "Association"
       /\ \A device \in 1..MaxDevices :
            (/\ device <= Len(devs)
             /\ MiracastService_Connect(device)
             /\ current_peer = Null /\ current_peer' # Null)
               => devs' = devs
       /\ \A device \in 1..MaxDevices :
            (/\ device <= Len(devs)
             /\ MiracastService_Disconnect(device)
             /\ ~group_started
             /\ queue' # queue)
               => queue' = Append(queue, Cmd("P2P_GROUP_REMOVE", "p2p0"))
      ]_vars

\* a Disconnect was accepted after an accepted Connect and before any
\* P2P-GROUP-STARTED: the peer is still Idle and P2P_GROUP_REMOVE is queued
C36_Witness ==
    /\ current_peer # Null /\ current_device = current_peer
    /\ ~group_started
    /\ devs[current_peer].state = "Idle"
    /\ queue # <<>> /\ queue[Len(queue)] = Cmd("P2P_GROUP_REMOVE", "p2p0")
    /\ out = <<Note("dcb", Null, "None")>>

\* C37: a device becomes Connected only from Configuration (its state before
\* the step, or the state reported for it earlier in the step): an address
\* assigned after the DHCP-assignment timeout advanced the current peer to
\* Failure does not advance that peer to Connected.
C37_ConnectedFromConfiguration ==
    [][\A d \in 1..Len(devs) :
          (devs'[d].state = "Connected" /\ devs[d].state # "Connected")
            => (devs[d].state = "Configuration" \/ Notified(d, "Configuration"))
      ]_vars

\* an ATTACH waits in the queue of a manager connected to a running supplicant
\* and has not been written to it
AttachWaiting ==
    /\ connected /\ sup_alive
    /\ \E i \in 1..Len(queue) : queue[i].name = "ATTACH"
    /\ \A i \in 1..Len(wire) : wire[i].name # "ATTACH"

\* C38: the queue makes progress across a crash of the supplicant: the ATTACH
\* enqueued by the connect to the respawned supplicant is eventually written
\* to it (unless that supplicant dies as well, or the run is cut off), also
\* when a request was in flight or queued when the earlier one died.
C38_QueueProgress ==
    AttachWaiting
        ~> (\/ wire # <<>> /\ wire[1].name = "ATTACH"
            \/ ~(connected /\ sup_alive)
            \/ steps = MaxSteps)

\* C39: every change of a device's state is reported within the step that
\* makes it: on_device_state_changed with the new state, then
\* on_device_changed, for that device; this includes the return to Idle when
\* the peer-failure one-shot fires.
C39_StateChangesReported ==
    [][\A d \in 1..Len(devs) :
          devs'[d].state # devs[d].state =>
            \E i, j \in 1..Len(out') :
                /\ i < j
                /\ out'[i] = Note("mgr.OnDeviceStateChanged", d, devs'[d].state)
                /\ out'[j] = Note("mgr.OnDeviceChanged", d, "")
      ]_vars

\* the part of C39 that holds: the changes made by every handler but
\* OnDeviceFailureTimeout are reported
AdvancedStatesReported ==
    [][\A d \in 1..Len(devs) :
          (devs'[d].state # devs[d].state /\ ~OnDeviceFailureTimeout) =>
            \E i, j \in 1..Len(out') :
                /\ i < j
                /\ out'[i] = Note("mgr.OnDeviceStateChanged", d, devs'[d].state)
                /\ out'[j] = Note("mgr.OnDeviceChanged", d, "")
      ]_vars

\* C40: at most one 500 ms connect timer is pending at any time, and a running
\* supplicant is connected and ATTACHed once only: the timer never connects
\* the control socket of a manager that is connected already.
C40_OneConnectTimer ==
    [][/\ connect_timers' <= 1
       /\ (OnConnectSupplicant(TRUE) /\ sup_alive) => ~connected
      ]_vars

====
